---- MODULE Spec2Model ----
(***************************************************************************)
(* Model of the configuration service (the-anna-project/configuration):    *)
(* namespace derivation, storage keys, the ruler registry, and the         *)
(* Create / Delete / Execute / Failure / Success / Boot handlers of        *)
(* service.go.  The storage collaborator is an external package; it is     *)
(* modelled by its contract (scored sets and scalar values, every call     *)
(* atomic and reliable apart from the "not found" failures of the          *)
(* contract).  Every handler is a sequence of steps, one per storage call, *)
(* registry access or mutex operation (Step); the specification Spec runs  *)
(* one whole handler per action (Run), SpecSeparators does so with labels  *)
(* that contain the key separators, and SpecConcurrent interleaves the     *)
(* steps of the calls of several threads.                                  *)
(***************************************************************************)
EXTENDS Integers, Sequences, FiniteSets, TLC

VARIABLES
    bootOnce,   \* service.bootOnce: "fresh", "running" or "done"
    rulers,     \* service.rulers: the names registered in the ruler map
    scored,     \* storage: scored sets, key -> (member -> score)
    scalars,    \* storage: scalar values, key -> string
    pieces,     \* service.pieces: the local cache, key -> results
    mutex,      \* service.mutex: its holder, or NoThread
    tieBreak,   \* storage: its fixed order among members of equal score
    last,       \* history: the recorded call, its arguments and return values
    created,    \* history: the <<namespace, pieceID>> pairs Create has ever registered
    registered, \* history: <<namespace, pieceID>> -> the results of the latest Create
                \* since the namespace's latest Delete or Failure
    calls,      \* number of calls other than Boot issued so far (at most MaxCalls)
    threads,    \* concurrent callers: thread -> the frame and the number of its call
    history     \* history of the concurrent calls: which call wrote each used
                \* record, and which kinds of call have been issued

vars == <<bootOnce, rulers, scored, scalars, pieces, mutex, tieBreak, last, created,
          registered, calls, threads, history>>

-----------------------------------------------------------------------------
(* Bounds and input sets                                                   *)

MaxCalls == 4

\* The concurrent specification: calls other than Boot issued by all threads.
MaxConcurrentCalls == 4

LabelLists == {<<"a">>, <<"c", "a", "b">>}

PieceIDs == {"p1", "p2"}

Results == {<<>>, <<"val1">>}

\* The stage signal of a call context: absent, or a value whose Trial() and
\* Replay() predicates are as named ("neither": both false).
Stages == {"absent", "trial", "replay", "neither"}

\* Create reads only Trial(): "replay" stands for every stage that is no trial.
CreateStages == {"absent", "trial", "replay"}

RandomValues == 0 .. (Cardinality(PieceIDs) - 1)

NoThread == "none"

Caller == "caller"

-----------------------------------------------------------------------------
(* Strings                                                                 *)

\* The characters of the model's strings in byte order.
ByteOrder == "-0123456789:abcdefghijklmnopqrstuvwxyz"

Ord == [c \in {SubSeq(ByteOrder, i, i) : i \in 1 .. Len(ByteOrder)} |->
            CHOOSE i \in 1 .. Len(ByteOrder) : SubSeq(ByteOrder, i, i) = c]

\* Go's string order (sort.Strings): byte-wise lexicographic.
RECURSIVE StrLess(_, _)
StrLess(s, t) ==
    IF t = "" THEN FALSE
    ELSE IF s = "" THEN TRUE
    ELSE IF Head(s) # Head(t) THEN Ord[Head(s)] < Ord[Head(t)]
    ELSE StrLess(Tail(s), Tail(t))

\* strings.HasPrefix
HasPrefix(s, prefix) ==
    /\ Len(prefix) <= Len(s)
    /\ SubSeq(s, 1, Len(prefix)) = prefix

RECURSIVE Insert(_, _)
Insert(x, s) ==
    IF s = <<>> THEN <<x>>
    ELSE IF StrLess(x, Head(s)) THEN <<x>> \o s
    ELSE <<Head(s)>> \o Insert(x, Tail(s))

\* sort.Strings
RECURSIVE SortStrings(_)
SortStrings(s) ==
    IF s = <<>> THEN <<>> ELSE Insert(Head(s), SortStrings(Tail(s)))

\* strings.Join
RECURSIVE Join(_, _)
Join(s, sep) ==
    IF s = <<>> THEN ""
    ELSE IF Len(s) = 1 THEN Head(s)
    ELSE Head(s) \o sep \o Join(Tail(s), sep)

-----------------------------------------------------------------------------
(* spec.go / key.go: namespaces and keys                                   *)

labelsToNamespaceUnsorted(labels) == Join(labels, "-")

labelsToNamespace(labels) == Join(SortStrings(labels), "-")

appendToNamespace(namespace, label) == namespace \o "-" \o label

namespaceKey(namespace) == "service:configuration:namespace:" \o namespace

pieceListKey(namespace) == namespaceKey(namespace) \o ":piece:list"

pieceUsedKey(namespace) == namespaceKey(namespace) \o ":piece:used"

rulerListKey(namespace) == namespaceKey(namespace) \o ":ruler:list"

rulerUsedKey(namespace) == namespaceKey(namespace) \o ":ruler:used"

randomRuler == "random"

highestRuler == "highest"

Namespaces == {labelsToNamespace(l) : l \in LabelLists}

-----------------------------------------------------------------------------
(* Errors (by kind)                                                        *)

nil == "nil"

invalidContextError == "invalid context"

notFoundError == "not found"

-----------------------------------------------------------------------------
(* The storage collaborator, by its contract.  sh is the record of the     *)
(* service's shared state: bootOnce, rulers, scored, scalars, pieces,      *)
(* mutex, tieBreak.                                                        *)

WithoutKey(f, key) == [k \in DOMAIN f \ {key} |-> f[k]]

WithKey(f, key, v) == (key :> v) @@ f

\* The members of the scored set under key in the scored sets sc, and a
\* member's score (0 for a member that is absent, as the increment takes it).
MembersOf(sc, key) == IF key \in DOMAIN sc THEN DOMAIN sc[key] ELSE {}

ScoreOf(sc, key, member) ==
    IF member \in MembersOf(sc, key) THEN sc[key][member] ELSE 0

Members(sh, key) == MembersOf(sh.scored, key)

Score(sh, key, member) == ScoreOf(sh.scored, key, member)

\* Exists(key): a whole scored set or scalar exists under key.
Exists(sh, key) == key \in DOMAIN sh.scored \/ key \in DOMAIN sh.scalars

\* ExistsInScoredSet(key, member)
ExistsInScoredSet(sh, key, member) == member \in Members(sh, key)

PutMember(sh, key, member, score) ==
    LET old == IF key \in DOMAIN sh.scored THEN sh.scored[key] ELSE <<>>
    IN  [sh EXCEPT !.scored = WithKey(@, key, WithKey(old, member, score))]

\* SetElementByScore(key, member, score): insert or overwrite one member's score.
SetElementByScore(sh, key, member, score) == PutMember(sh, key, member, score)

\* IncrementScoredElement(key, member, delta): creates the member at delta if absent.
IncrementScoredElement(sh, key, member, delta) ==
    PutMember(sh, key, member, Score(sh, key, member) + delta)

\* The storage's order of a scored set, highest first; members of equal score
\* are ordered by the storage's fixed tie-break.
RanksBefore(sh, key, a, b) ==
    \/ Score(sh, key, a) > Score(sh, key, b)
    \/ /\ Score(sh, key, a) = Score(sh, key, b)
       /\ IF sh.tieBreak = "descending" THEN StrLess(b, a) ELSE StrLess(a, b)

RECURSIVE TopOf(_, _, _, _)
TopOf(sh, key, S, n) ==
    IF n = 0 \/ S = {} THEN <<>>
    ELSE LET m == CHOOSE x \in S : \A y \in S \ {x} : RanksBefore(sh, key, x, y)
         IN  <<m>> \o TopOf(sh, key, S \ {m}, n - 1)

\* GetHighestScoredElements(key, n): the top n members; none for a missing set.
GetHighestScoredElements(sh, key, n) == TopOf(sh, key, Members(sh, key), n)

RECURSIVE SortedMembers(_)
SortedMembers(S) ==
    IF S = {} THEN <<>>
    ELSE LET m == CHOOSE x \in S : \A y \in S \ {x} : StrLess(x, y)
         IN  <<m>> \o SortedMembers(S \ {m})

\* GetRandomFromScoredSet(key): any member (the one the random index rnd
\* selects); fails when there is none.
GetRandomFromScoredSet(sh, key, rnd) ==
    LET S == Members(sh, key)
    IN  IF S = {} THEN [element |-> "", err |-> notFoundError]
        ELSE [element |-> SortedMembers(S)[(rnd % Cardinality(S)) + 1], err |-> nil]

\* Get(key): fails when no value is stored under key.
Get(sh, key) ==
    IF key \in DOMAIN sh.scalars
    THEN [value |-> sh.scalars[key], err |-> nil]
    ELSE [value |-> "", err |-> notFoundError]

\* Set(key, value)
Set(sh, key, value) == [sh EXCEPT !.scalars = WithKey(@, key, value)]

\* Remove(key): deletes a whole key, scored set or scalar.
Remove(sh, key) ==
    [sh EXCEPT !.scored = WithoutKey(@, key), !.scalars = WithoutKey(@, key)]

-----------------------------------------------------------------------------
(* Call frames.  A frame c holds one call's arguments, its position pc,    *)
(* its local variables and, at pc = "done", its return values.  Every      *)
(* step operator maps the shared state sh and a frame to the shared state  *)
(* and frame after the step: [sh |-> ..., c |-> ...].                      *)

\* currentstage.Value: Trial() and Replay()
Trial(stage) == stage = "trial"

Replay(stage) == stage = "replay"

\* currentstage.FromContext: ok iff the context carries a stage value
FromContext(stage) == stage # "absent"

NewFrame(op, tid, labels, stage, pieceID, results, rnd) ==
    [op |-> op, tid |-> tid, pc |-> "start",
     labels |-> labels, stage |-> stage, pieceID |-> pieceID, results |-> results,
     rnd |-> rnd,            \* the call's draw: random index, map iteration order
     namespace |-> "", rulerID |-> "", todo |-> {},
     events |-> <<>>,        \* Execute: the used-ruler write and the ruler invocation, in order
     retID |-> "", retResults |-> <<>>, err |-> nil]

Goto(sh, c, pc) == [sh |-> sh, c |-> [c EXCEPT !.pc = pc]]

Return(sh, c, err) == [sh |-> sh, c |-> [c EXCEPT !.pc = "done", !.err = err]]

Lock(sh, c, pc) == [sh |-> [sh EXCEPT !.mutex = c.tid], c |-> [c EXCEPT !.pc = pc]]

Unlock(sh, c, pc) == [sh |-> [sh EXCEPT !.mutex = NoThread], c |-> [c EXCEPT !.pc = pc]]

\* A step that has to wait: mutex.Lock() while the mutex is held, and
\* bootOnce.Do() while another call runs the boot function.
Blocked(sh, c) ==
    \/ c.pc \in {"c_lock", "d_lock", "e_lock"} /\ sh.mutex # NoThread
    \/ c.op = "Boot" /\ c.pc = "start" /\ sh.bootOnce = "running"

-----------------------------------------------------------------------------
(* service.Create                                                          *)

\* Lines 202-208: the existence check of the ruler list.
CreateRulersExist(sh, c) ==
    LET key == rulerListKey(c.namespace)
    IN  IF ~Exists(sh, key)
        THEN [sh |-> sh, c |-> [c EXCEPT !.pc = "c_seed", !.todo = sh.rulers]]
        ELSE Goto(sh, c, "c_pexists")

CreatePieceAlways(sh, c) == Goto(sh, c, "c_pset")

\* Lines 220-224: the piece is inserted unless it is a member.
CreatePiece(sh, c) ==
    LET key == pieceListKey(c.namespace)
    IN  IF ~ExistsInScoredSet(sh, key, c.pieceID)
        THEN Goto(sh, c, "c_pset")
        ELSE Goto(sh, c, "c_lock")

\* No mutex is taken: the cache write follows at once.
CreatePieceSetUnlocked(sh, c) ==
    Goto(SetElementByScore(sh, pieceListKey(c.namespace), c.pieceID, 0), c, "c_cache")

\* Lines 225-229: the insertion at score 0, a storage call of its own.
CreatePieceSet(sh, c) ==
    Goto(SetElementByScore(sh, pieceListKey(c.namespace), c.pieceID, 0), c, "c_lock")

\* Lines 236-237: the cache write.
CreateCache(sh, c) ==
    LET key == pieceListKey(c.namespace)
    IN  Goto([sh EXCEPT !.pieces = WithKey(@, appendToNamespace(key, c.pieceID), c.results)],
             c, "c_unlock")

CreateStep(sh, c) ==
    CASE c.pc = "start" ->
            LET c1 == [c EXCEPT !.namespace = labelsToNamespace(c.labels)]
            IN  IF ~FromContext(c.stage) THEN Return(sh, c1, invalidContextError)
                ELSE IF Trial(c.stage) THEN Goto(sh, c1, "c_exists")
                ELSE Goto(sh, c1, "c_pexists")
      [] c.pc = "c_exists" -> CreateRulersExist(sh, c)
      [] c.pc = "c_seed" ->
            \* for k := range s.rulers: one SetElementByScore per step, in the
            \* order the map iteration happens to take
            IF c.todo = {} THEN Goto(sh, c, "c_pexists")
            ELSE LET k == SortedMembers(c.todo)[(c.rnd % Cardinality(c.todo)) + 1]
                 IN  [sh |-> SetElementByScore(sh, rulerListKey(c.namespace), k, 0),
                      c |-> [c EXCEPT !.todo = @ \ {k}]]
      [] c.pc = "c_pexists" -> CreatePiece(sh, c)
      [] c.pc = "c_pset" -> CreatePieceSet(sh, c)
      [] c.pc = "c_lock" -> Lock(sh, c, "c_cache")
      [] c.pc = "c_cache" -> CreateCache(sh, c)
      [] c.pc = "c_unlock" -> Unlock(sh, c, "done")

-----------------------------------------------------------------------------
(* service.Delete, service.Failure                                         *)

DeleteCacheAll(sh, c) == Goto([sh EXCEPT !.pieces = <<>>], c, "d_unlock")

DeleteCacheExact(sh, c) ==
    LET key == pieceListKey(c.namespace)
    IN  Goto([sh EXCEPT !.pieces = WithoutKey(@, key)], c, "d_unlock")

\* Lines 268-273: every cache entry whose key starts with the piece-list key.
DeleteCache(sh, c) ==
    LET key == pieceListKey(c.namespace)
    IN  Goto([sh EXCEPT !.pieces =
                  [k \in {x \in DOMAIN @ : ~HasPrefix(x, key)} |-> @[k]]],
             c, "d_unlock")

DeleteStep(sh, c) ==
    CASE c.pc = "start" ->
            LET c1 == [c EXCEPT !.namespace = labelsToNamespace(c.labels)]
            IN  Goto(Remove(sh, rulerListKey(c1.namespace)), c1, "d_pieces")
      [] c.pc = "d_pieces" -> Goto(Remove(sh, pieceListKey(c.namespace)), c, "d_lock")
      [] c.pc = "d_lock" -> Lock(sh, c, "d_cache")
      [] c.pc = "d_cache" -> DeleteCache(sh, c)
      [] c.pc = "d_unlock" -> Unlock(sh, c, "done")

\* Failure calls Delete and returns its error.
FailureStep(sh, c) == DeleteStep(sh, c)

-----------------------------------------------------------------------------
(* service.Boot: the rulers                                                *)

RandomRulerIgnoresError(sh, labels, rnd) ==
    LET namespace == labelsToNamespace(labels)
        key == pieceListKey(namespace)
        r == GetRandomFromScoredSet(sh, key, rnd)
    IN  [pieceID |-> r.element, err |-> nil]

\* Lines 153-163: the random ruler.
RandomRulerFn(sh, labels, rnd) ==
    LET namespace == labelsToNamespace(labels)
        key == pieceListKey(namespace)
        r == GetRandomFromScoredSet(sh, key, rnd)
    IN  IF r.err # nil THEN [pieceID |-> "", err |-> r.err]
        ELSE [pieceID |-> r.element, err |-> nil]

\* Lines 166-182: the highest ruler.
HighestRulerFn(sh, labels, rnd) ==
    LET namespace == labelsToNamespace(labels)
        key == pieceListKey(namespace)
        elements == GetHighestScoredElements(sh, key, 1)
    IN  IF Len(elements) # 1 THEN [pieceID |-> "", err |-> notFoundError]
        ELSE [pieceID |-> elements[1], err |-> nil]

\* s.rulers[rulerID](ctx, labels)
InvokeRuler(rulerID, sh, labels, rnd) ==
    IF rulerID = randomRuler THEN RandomRulerFn(sh, labels, rnd)
    ELSE HighestRulerFn(sh, labels, rnd)

\* Lines 149-184: bootOnce.Do registers the two rulers.
BootStepEveryCall(sh, c) ==
    CASE c.pc = "start" -> Goto([sh EXCEPT !.bootOnce = "running"], c, "b_random")
      [] c.pc = "b_random" ->
            Goto([sh EXCEPT !.rulers = @ \cup {randomRuler}], c, "b_highest")
      [] c.pc = "b_highest" ->
            Goto([sh EXCEPT !.rulers = @ \cup {highestRuler}], c, "b_done")
      [] c.pc = "b_done" -> Goto([sh EXCEPT !.bootOnce = "done"], c, "done")

BootStep(sh, c) ==
    CASE c.pc = "start" ->
            IF sh.bootOnce = "done" THEN Goto(sh, c, "done")
            ELSE Goto([sh EXCEPT !.bootOnce = "running"], c, "b_random")
      [] c.pc = "b_random" ->
            Goto([sh EXCEPT !.rulers = @ \cup {randomRuler}], c, "b_highest")
      [] c.pc = "b_highest" ->
            Goto([sh EXCEPT !.rulers = @ \cup {highestRuler}], c, "b_done")
      [] c.pc = "b_done" -> Goto([sh EXCEPT !.bootOnce = "done"], c, "done")

-----------------------------------------------------------------------------
(* service.Execute                                                         *)

\* Lines 286-294 and the branch of lines 299 and 328.
ExecuteStage(sh, c) ==
    IF ~FromContext(c.stage) THEN Return(sh, c, invalidContextError)
    ELSE IF Trial(c.stage) THEN Goto(sh, c, "e_highest")
    ELSE IF Replay(c.stage) THEN Goto(sh, c, "e_get")
    ELSE Goto(sh, c, "e_lookup")

ExecuteFindRulerLowest(sh, c) ==
    LET key == rulerListKey(c.namespace)
        S == Members(sh, key)
        elements == IF S = {} THEN <<>>
                    ELSE <<CHOOSE x \in S : \A y \in S \ {x} : RanksBefore(sh, key, y, x)>>
    IN  [sh |-> sh,
         c |-> [c EXCEPT !.pc = "e_setruler",
                         !.rulerID = IF Len(elements) = 0 THEN randomRuler
                                     ELSE elements[1]]]

ExecuteFindRulerUnrecorded(sh, c) ==
    LET key == rulerListKey(c.namespace)
        elements == GetHighestScoredElements(sh, key, 1)
    IN  [sh |-> sh,
         c |-> [c EXCEPT !.pc = "e_lookup",
                         !.rulerID = IF Len(elements) = 0 THEN randomRuler
                                     ELSE elements[1]]]

\* Lines 300-315: the best ruler of the namespace, or the random ruler.
ExecuteFindRuler(sh, c) ==
    LET key == rulerListKey(c.namespace)
        elements == GetHighestScoredElements(sh, key, 1)
    IN  [sh |-> sh,
         c |-> [c EXCEPT !.pc = "e_setruler",
                         !.rulerID = IF Len(elements) = 0 THEN randomRuler
                                     ELSE elements[1]]]

\* Lines 318-324: the used-ruler record.
ExecuteSetRuler(sh, c) ==
    [sh |-> Set(sh, rulerUsedKey(c.namespace), c.rulerID),
     c |-> [c EXCEPT !.pc = IF Replay(c.stage) THEN "e_get" ELSE "e_lookup",
                     !.events = Append(@, [kind |-> "set", key |-> rulerUsedKey(c.namespace),
                                           value |-> c.rulerID])]]

\* Lines 328-334: replay reads the used-ruler record.
ExecuteGetRuler(sh, c) ==
    LET r == Get(sh, rulerUsedKey(c.namespace))
    IN  IF r.err # nil THEN Return(sh, c, r.err)
        ELSE [sh |-> sh, c |-> [c EXCEPT !.pc = "e_lookup", !.rulerID = r.value]]

\* Lines 341-344: the registry lookup.
ExecuteLookup(sh, c) ==
    IF c.rulerID \notin sh.rulers THEN Return(sh, c, notFoundError)
    ELSE Goto(sh, c, "e_ruler")

\* Lines 345-348: the ruler chooses the piece.
ExecuteRuler(sh, c) ==
    LET r == InvokeRuler(c.rulerID, sh, c.labels, c.rnd)
        c1 == [c EXCEPT !.events = Append(@, [kind |-> "ruler", key |-> "",
                                              value |-> c.rulerID])]
    IN  IF r.err # nil THEN Return(sh, c1, r.err)
        ELSE [sh |-> sh, c |-> [c1 EXCEPT !.pc = "e_setpiece", !.pieceID = r.pieceID]]

\* Lines 349-352: the used-piece record.
ExecuteSetPiece(sh, c) ==
    Goto(Set(sh, pieceUsedKey(c.namespace), c.pieceID), c, "e_lock")

\* Line 355: results, _ = s.pieces[pieceID]
ExecuteCache(sh, c) ==
    [sh |-> sh,
     c |-> [c EXCEPT !.pc = "e_unlock",
                     !.retResults = IF c.pieceID \in DOMAIN sh.pieces
                                    THEN sh.pieces[c.pieceID] ELSE <<>>]]

ExecuteStep(sh, c) ==
    CASE c.pc = "start" ->
            ExecuteStage(sh, [c EXCEPT !.namespace = labelsToNamespace(c.labels)])
      [] c.pc = "e_highest" -> ExecuteFindRuler(sh, c)
      [] c.pc = "e_setruler" -> ExecuteSetRuler(sh, c)
      [] c.pc = "e_get" -> ExecuteGetRuler(sh, c)
      [] c.pc = "e_lookup" -> ExecuteLookup(sh, c)
      [] c.pc = "e_ruler" -> ExecuteRuler(sh, c)
      [] c.pc = "e_setpiece" -> ExecuteSetPiece(sh, c)
      [] c.pc = "e_lock" -> Lock(sh, c, "e_cache")
      [] c.pc = "e_cache" -> ExecuteCache(sh, c)
      [] c.pc = "e_unlock" ->
            [sh |-> [sh EXCEPT !.mutex = NoThread],
             c |-> [c EXCEPT !.pc = "done", !.retID = c.pieceID]]

-----------------------------------------------------------------------------
(* service.Success                                                         *)

\* Lines 375-384: the used ruler's score.
SuccessRuler(sh, c) ==
    Goto(IncrementScoredElement(sh, rulerListKey(c.namespace), c.rulerID, 1), c, "s_getpiece")

SuccessPieceInRulerList(sh, c) ==
    Goto(IncrementScoredElement(sh, rulerListKey(c.namespace), c.pieceID, 1), c, "done")

\* Lines 387-396: the used piece's score.
SuccessPiece(sh, c) ==
    Goto(IncrementScoredElement(sh, pieceListKey(c.namespace), c.pieceID, 1), c, "done")

SuccessStep(sh, c) ==
    CASE c.pc = "start" ->
            LET c1 == [c EXCEPT !.namespace = labelsToNamespace(c.labels)]
                r == Get(sh, rulerUsedKey(c1.namespace))
            IN  IF r.err # nil THEN Return(sh, c1, r.err)
                ELSE [sh |-> sh, c |-> [c1 EXCEPT !.pc = "s_incruler", !.rulerID = r.value]]
      [] c.pc = "s_incruler" -> SuccessRuler(sh, c)
      [] c.pc = "s_getpiece" ->
            LET r == Get(sh, pieceUsedKey(c.namespace))
            IN  IF r.err # nil THEN Return(sh, c, r.err)
                ELSE [sh |-> sh, c |-> [c EXCEPT !.pc = "s_incpiece", !.pieceID = r.value]]
      [] c.pc = "s_incpiece" -> SuccessPiece(sh, c)

-----------------------------------------------------------------------------
(* One step of a call, and a whole call                                    *)

Step(sh, c) ==
    CASE c.op = "Boot" -> BootStep(sh, c)
      [] c.op = "Create" -> CreateStep(sh, c)
      [] c.op = "Delete" -> DeleteStep(sh, c)
      [] c.op = "Execute" -> ExecuteStep(sh, c)
      [] c.op = "Failure" -> FailureStep(sh, c)
      [] c.op = "Success" -> SuccessStep(sh, c)

\* A call run from its first step to its return, with no other call in
\* between: x is [sh |-> shared state, c |-> frame].
RECURSIVE Run(_)
Run(x) == IF x.c.pc = "done" THEN x ELSE Run(Step(x.sh, x.c))

-----------------------------------------------------------------------------
(* The specification: calls issued one after the other.                    *)
(*                                                                         *)
(* The history variable last holds the arguments and the return values of  *)
(* a call.  A behaviour records one call, its final one: a call is issued  *)
(* either unrecorded, and more calls follow, or recorded, and the          *)
(* behaviour ends there.  Every call from every reachable state of the     *)
(* service is so the recorded call of some behaviour.                      *)

\* The callers of the concurrent specification.
Threads == {"t1", "t2"}

\* A thread that is in no call.
Idle(t) ==
    [c |-> [NewFrame("none", t, <<>>, "absent", "", <<>>, 0) EXCEPT !.pc = "idle"], id |-> 0]

NoHistory ==
    [writers |-> <<>>,     \* used-record key -> the number of the call that wrote it last
     purged |-> FALSE]     \* a Delete or a Failure has been issued

Shared ==
    [bootOnce |-> bootOnce, rulers |-> rulers, scored |-> scored, scalars |-> scalars,
     pieces |-> pieces, mutex |-> mutex, tieBreak |-> tieBreak]

NoCall ==
    [op |-> "none", labels |-> <<>>, stage |-> "absent", pieceID |-> "", results |-> <<>>,
     namespace |-> "", rulerID |-> "", events |-> <<>>,
     retID |-> "", retResults |-> <<>>, err |-> nil]

Init ==
    /\ bootOnce = "fresh"
    /\ rulers = {}
    /\ scored = <<>>
    /\ scalars = <<>>
    /\ pieces = <<>>
    /\ mutex = NoThread
    /\ tieBreak \in {"ascending", "descending"}
    /\ last = NoCall
    /\ created = {}
    /\ registered = <<>>
    /\ calls = 0
    /\ threads = [t \in Threads |-> Idle(t)]
    /\ history = NoHistory

\* The registrations after a call: Create adds one, Delete and Failure drop
\* those of the namespace.
Registered(op, c) ==
    IF c.err # nil THEN registered
    ELSE IF op = "Create" THEN WithKey(registered, <<c.namespace, c.pieceID>>, c.results)
    ELSE IF op \in {"Delete", "Failure"}
    THEN [k \in {x \in DOMAIN registered : x[1] # c.namespace} |-> registered[k]]
    ELSE registered

\* One call, from its first step to its return.
Call(op, labels, stage, pieceID, results, rnd, record) ==
    /\ last = NoCall
    /\ \E r \in {Run([sh |-> Shared,
                      c |-> NewFrame(op, Caller, labels, stage, pieceID, results, rnd)])} :
           /\ bootOnce' = r.sh.bootOnce
           /\ rulers' = r.sh.rulers
           /\ scored' = r.sh.scored
           /\ scalars' = r.sh.scalars
           /\ pieces' = r.sh.pieces
           /\ mutex' = r.sh.mutex
           /\ last' = IF record
                      THEN [op |-> op, labels |-> labels, stage |-> stage,
                            pieceID |-> pieceID, results |-> results,
                            namespace |-> r.c.namespace, rulerID |-> r.c.rulerID,
                            events |-> r.c.events,
                            retID |-> r.c.retID, retResults |-> r.c.retResults,
                            err |-> r.c.err]
                      ELSE NoCall
           /\ created' = IF op = "Create" /\ r.c.err = nil
                         THEN created \cup {<<r.c.namespace, pieceID>>}
                         ELSE created
           /\ registered' = Registered(op, r.c)
    /\ UNCHANGED <<tieBreak, threads, history>>

Boot ==
    \E record \in BOOLEAN :
        /\ Call("Boot", <<>>, "absent", "", <<>>, 0, record)
        /\ UNCHANGED calls

Create ==
    \E labels \in LabelLists, stage \in CreateStages, pieceID \in PieceIDs,
       results \in Results, record \in BOOLEAN :
        /\ calls < MaxCalls
        /\ Call("Create", labels, stage, pieceID, results, 0, record)
        /\ calls' = calls + 1

Delete ==
    \E labels \in LabelLists, record \in BOOLEAN :
        /\ calls < MaxCalls
        /\ Call("Delete", labels, "absent", "", <<>>, 0, record)
        /\ calls' = calls + 1

Execute ==
    \E labels \in LabelLists, stage \in Stages, rnd \in RandomValues, record \in BOOLEAN :
        /\ calls < MaxCalls
        /\ Call("Execute", labels, stage, "", <<>>, rnd, record)
        /\ calls' = calls + 1

Failure ==
    \E labels \in LabelLists, record \in BOOLEAN :
        /\ calls < MaxCalls
        /\ Call("Failure", labels, "absent", "", <<>>, 0, record)
        /\ calls' = calls + 1

Success ==
    \E labels \in LabelLists, record \in BOOLEAN :
        /\ calls < MaxCalls
        /\ Call("Success", labels, "absent", "", <<>>, 0, record)
        /\ calls' = calls + 1

Next == Boot \/ Create \/ Delete \/ Execute \/ Failure \/ Success

Spec == Init /\ [][Next]_vars

-----------------------------------------------------------------------------
(* A second specification: the same calls with labels and pieceIDs that    *)
(* contain the separator characters of the keys, "-" and ":".              *)

SeparatorLabelLists == {<<"a">>, <<"a:piece:list">>, <<"a-b">>}

SeparatorPieceIDs == {"p-1", "p:1"}

SeparatorNamespaces == {labelsToNamespace(l) : l \in SeparatorLabelLists}

CreateSeparators ==
    \E labels \in SeparatorLabelLists, pieceID \in SeparatorPieceIDs, record \in BOOLEAN :
        /\ calls < MaxCalls
        /\ Call("Create", labels, "trial", pieceID, <<"val1">>, 0, record)
        /\ calls' = calls + 1

DeleteSeparators ==
    \E labels \in SeparatorLabelLists, record \in BOOLEAN :
        /\ calls < MaxCalls
        /\ Call("Delete", labels, "absent", "", <<>>, 0, record)
        /\ calls' = calls + 1

FailureSeparators ==
    \E labels \in SeparatorLabelLists, record \in BOOLEAN :
        /\ calls < MaxCalls
        /\ Call("Failure", labels, "absent", "", <<>>, 0, record)
        /\ calls' = calls + 1

NextSeparators == Boot \/ CreateSeparators \/ DeleteSeparators \/ FailureSeparators

SpecSeparators == Init /\ [][NextSeparators]_vars

-----------------------------------------------------------------------------
(* A third specification: the calls of several threads, interleaved step   *)
(* by step.  A thread issues a call (Invoke) and then takes its steps one  *)
(* at a time (Proceed); the step that returns leaves the thread idle.  A   *)
(* step that waits for the mutex or for bootOnce is not enabled.           *)

\* The calls the threads issue, all on one namespace and one piece.
ConcurrentCalls ==
    {[op |-> "Boot", stage |-> "absent"],
     [op |-> "Create", stage |-> "trial"],
     [op |-> "Execute", stage |-> "trial"],
     [op |-> "Success", stage |-> "absent"],
     [op |-> "Delete", stage |-> "absent"]}

ConcurrentLabels == <<"a">>

ConcurrentPieceID == "p1"

\* The used record a step at pc writes, for the history.
Written(c) ==
    IF c.op = "Execute" /\ c.pc = "e_setruler" THEN {rulerUsedKey(c.namespace)}
    ELSE IF c.op = "Execute" /\ c.pc = "e_setpiece" THEN {pieceUsedKey(c.namespace)}
    ELSE {}

Invoke(t) ==
    /\ threads[t].c.pc = "idle"
    /\ \E k \in ConcurrentCalls :
          /\ k.op = "Boot" \/ calls < MaxConcurrentCalls
          /\ threads' = [threads EXCEPT ![t] =
                 [c |-> NewFrame(k.op, t, ConcurrentLabels, k.stage, ConcurrentPieceID, <<>>, 0),
                  id |-> IF k.op = "Boot" THEN 0 ELSE calls + 1]]
          /\ calls' = IF k.op = "Boot" THEN calls ELSE calls + 1
          /\ history' = [history EXCEPT !.purged = @ \/ k.op \in {"Delete", "Failure"}]
    /\ UNCHANGED <<bootOnce, rulers, scored, scalars, pieces, mutex, tieBreak, last,
                   created, registered>>

Proceed(t) ==
    /\ threads[t].c.pc \notin {"idle", "done"}
    /\ ~Blocked(Shared, threads[t].c)
    /\ \E r \in {Step(Shared, threads[t].c)} :
          /\ bootOnce' = r.sh.bootOnce
          /\ rulers' = r.sh.rulers
          /\ scored' = r.sh.scored
          /\ scalars' = r.sh.scalars
          /\ pieces' = r.sh.pieces
          /\ mutex' = r.sh.mutex
          /\ threads' = [threads EXCEPT ![t] =
                 IF r.c.pc = "done" THEN Idle(t) ELSE [c |-> r.c, id |-> @.id]]
          /\ history' = [history EXCEPT !.writers =
                 [k \in DOMAIN @ \cup Written(threads[t].c) |->
                     IF k \in Written(threads[t].c) THEN threads[t].id ELSE @[k]]]
    /\ UNCHANGED <<tieBreak, last, created, registered, calls>>

NextConcurrent == \E t \in Threads : Invoke(t) \/ Proceed(t)

SpecConcurrent == Init /\ [][NextConcurrent]_vars

-----------------------------------------------------------------------------
(* Claims.  Each is stated on the recorded call: last holds its arguments  *)
(* and return values, the other variables the state it left (unprimed) or, *)
(* in an action formula, the states before (unprimed) and after (primed).  *)

\* The outcome of Execute(labels) issued next, in the given stage.
ExecuteNext(labels, stage, rnd) ==
    Run([sh |-> Shared, c |-> NewFrame("Execute", Caller, labels, stage, "", <<>>, rnd)]).c

NeverCreated(namespace) == \A x \in created : x[1] # namespace

\* C1: if a trial Execute returns pieceID p and a replay Execute on the same
\* labels follows with no storage change in between, the replay returns p too,
\* whatever ruler the trial recorded and however many pieces are registered.
C1_ReplayReproducesTrial ==
    (last.op = "Execute" /\ last.stage = "trial" /\ last.err = nil)
        => \A rnd \in RandomValues :
              /\ ExecuteNext(last.labels, "replay", rnd).err = nil
              /\ ExecuteNext(last.labels, "replay", rnd).retID = last.retID

\* C2: after Create(labels, p, results) and no later Delete/Failure, every
\* successful Execute(labels) that returns p returns the results most recently
\* passed to Create for p under those labels.
C2_ExecuteReturnsRegisteredResults ==
    (/\ last.op = "Execute"
     /\ last.err = nil
     /\ <<last.namespace, last.retID>> \in DOMAIN registered)
        => last.retResults = registered[<<last.namespace, last.retID>>]

C4_CreateKeepsScoresReplacesResults ==
    [][(/\ last'.op = "Create"
        /\ last'.err = nil
        /\ <<last'.namespace, last'.pieceID>> \in created)
           => LET pieceKey == pieceListKey(last'.namespace)
                  rulerKey == rulerListKey(last'.namespace)
                  cacheKey == appendToNamespace(pieceKey, last'.pieceID)
              IN  /\ last'.pieceID \in MembersOf(scored, pieceKey)
                        => /\ last'.pieceID \in MembersOf(scored', pieceKey)
                           /\ scored'[pieceKey][last'.pieceID] = scored[pieceKey][last'.pieceID]
                  /\ \A k \in MembersOf(scored, rulerKey) :
                        /\ k \in MembersOf(scored', rulerKey)
                        /\ scored'[rulerKey][k] = scored[rulerKey][k]
                  /\ cacheKey \in DOMAIN pieces'
                  /\ pieces'[cacheKey] = last'.results]_vars

\* C4 witness: a repeated Create of a piece whose score and whose namespace's
\* ruler score Success had raised: both scores are still raised, and the cache
\* holds the results of this call.
C4_Witness ==
    /\ last.op = "Create"
    /\ last.err = nil
    /\ last.results = <<"val1">>
    /\ Score(Shared, pieceListKey(last.namespace), last.pieceID) >= 1
    /\ \E k \in rulers : Score(Shared, rulerListKey(last.namespace), k) >= 1
    /\ pieces[appendToNamespace(pieceListKey(last.namespace), last.pieceID)] = <<"val1">>

\* C5: a successful Success raises by exactly 1 the score of the ruler named in
\* the used-ruler record and of the piece named in the used-piece record of the
\* namespace, and changes no other score, no other namespace, neither used
\* record and no cache entry.
C5_SuccessIncrementsUsedOnly ==
    [][(last'.op = "Success" /\ last'.err = nil)
           => LET rulerKey == rulerListKey(last'.namespace)
                  pieceKey == pieceListKey(last'.namespace)
                  usedRuler == scalars[rulerUsedKey(last'.namespace)]
                  usedPiece == scalars[pieceUsedKey(last'.namespace)]
              IN  /\ rulerUsedKey(last'.namespace) \in DOMAIN scalars
                  /\ pieceUsedKey(last'.namespace) \in DOMAIN scalars
                  /\ usedRuler \in MembersOf(scored', rulerKey)
                  /\ ScoreOf(scored', rulerKey, usedRuler) = ScoreOf(scored, rulerKey, usedRuler) + 1
                  /\ usedPiece \in MembersOf(scored', pieceKey)
                  /\ ScoreOf(scored', pieceKey, usedPiece) = ScoreOf(scored, pieceKey, usedPiece) + 1
                  /\ \A key \in DOMAIN scored \cup DOMAIN scored' :
                        \A m \in MembersOf(scored, key) \cup MembersOf(scored', key) :
                            <<key, m>> \notin {<<rulerKey, usedRuler>>, <<pieceKey, usedPiece>>}
                                => /\ m \in MembersOf(scored, key)
                                   /\ m \in MembersOf(scored', key)
                                   /\ scored'[key][m] = scored[key][m]
                  /\ scalars' = scalars
                  /\ pieces' = pieces
                  /\ rulers' = rulers]_vars

\* C5 witness: a successful Success that raised the used ruler and the used
\* piece of its namespace, while another namespace holds a piece list and a
\* cache entry of its own.
C5_Witness ==
    /\ last.op = "Success"
    /\ last.err = nil
    /\ Score(Shared, rulerListKey(last.namespace), scalars[rulerUsedKey(last.namespace)]) >= 1
    /\ Score(Shared, pieceListKey(last.namespace), scalars[pieceUsedKey(last.namespace)]) >= 1
    /\ \E n \in Namespaces \ {last.namespace} :
          /\ Exists(Shared, pieceListKey(n))
          /\ \E k \in DOMAIN pieces : HasPrefix(k, pieceListKey(n))

\* C6: after Delete or Failure has returned without error, the ruler scored set
\* and the piece scored set of the namespace do not exist, the cache holds no
\* entry whose key starts with the piece-list key of the namespace, and an
\* Execute on the same labels issued next, in trial or replay stage, fails.
C6_DeleteRemovesSetsAndCache ==
    (last.op \in {"Delete", "Failure"} /\ last.err = nil)
        => /\ ~Exists(Shared, rulerListKey(last.namespace))
           /\ ~Exists(Shared, pieceListKey(last.namespace))
           /\ \A k \in DOMAIN pieces : ~HasPrefix(k, pieceListKey(last.namespace))
           /\ \A stage \in {"trial", "replay"}, rnd \in RandomValues :
                 ExecuteNext(last.labels, stage, rnd).err # nil

\* C6 witness: a Failure on a namespace that had pieces registered and a ruler
\* recorded by an earlier Execute (so that a replay gets as far as the ruler),
\* while the cache still holds an entry of another namespace.
C6_Witness ==
    /\ last.op = "Failure"
    /\ last.err = nil
    /\ bootOnce = "done"
    /\ \E x \in created : x[1] = last.namespace
    /\ rulerUsedKey(last.namespace) \in DOMAIN scalars
    /\ pieces # <<>>

\* C7: after Delete or Failure has returned without error no persistent state
\* of the namespace remains: the used-ruler record and the used-piece record
\* are absent as well.
C7_DeleteRemovesUsedRecords ==
    (last.op \in {"Delete", "Failure"} /\ last.err = nil)
        => /\ ~Exists(Shared, rulerUsedKey(last.namespace))
           /\ ~Exists(Shared, pieceUsedKey(last.namespace))

\* C8: a trial Execute writes the used-ruler record of the namespace before it
\* invokes the ruler, and the value written is the name of the ruler it then
\* invokes, also when the invocation fails.
C8_TrialRecordsRulerBeforeInvoking ==
    (last.op = "Execute" /\ last.stage = "trial")
        => /\ Len(last.events) >= 1
           /\ last.events[1].kind = "set"
           /\ last.events[1].key = rulerUsedKey(last.namespace)
           /\ \A i \in DOMAIN last.events :
                 last.events[i].kind = "ruler"
                     => /\ i = 2
                        /\ last.events[i].value = last.events[1].value
                        /\ Get(Shared, rulerUsedKey(last.namespace)).value = last.events[i].value

\* C8 witness: a trial Execute whose ruler was invoked and failed.
C8_Witness ==
    /\ last.op = "Execute"
    /\ last.stage = "trial"
    /\ Len(last.events) = 2
    /\ last.events[2].kind = "ruler"
    /\ last.err # nil

\* C9: Execute with a context whose stage signal is absent, or present but
\* asserting neither trial nor replay, fails with the invalid-context error.
C9_NoStageIsInvalidContext ==
    (last.op = "Execute" /\ ~Trial(last.stage) /\ ~Replay(last.stage))
        => last.err = invalidContextError

\* All orders of the elements of a sequence.
Reorderings(s) ==
    {[i \in DOMAIN s |-> s[f[i]]] :
        f \in {g \in [DOMAIN s -> DOMAIN s] : \A i, j \in DOMAIN s : i # j => g[i] # g[j]}}

\* The label lists a caller may pass for the same label set.
SameLabels == [l \in LabelLists |-> Reorderings(l)]

\* C10: labelsToNamespace returns the same namespace for every permutation of
\* the labels, so that Create, Execute, Success, Failure and Delete called with
\* permuted labels address the same storage keys.
C10_NamespaceIgnoresLabelOrder ==
    last.op \in {"Create", "Delete", "Execute", "Failure", "Success"}
        => \A labels \in SameLabels[last.labels] :
              /\ labelsToNamespace(labels) = last.namespace
              /\ pieceListKey(labelsToNamespace(labels)) = pieceListKey(last.namespace)
              /\ pieceUsedKey(labelsToNamespace(labels)) = pieceUsedKey(last.namespace)
              /\ rulerListKey(labelsToNamespace(labels)) = rulerListKey(last.namespace)
              /\ rulerUsedKey(labelsToNamespace(labels)) = rulerUsedKey(last.namespace)

\* C10 witness: a Create called with labels that are not in sorted order has
\* registered its piece under the piece-list key of the sorted labels.
C10_Witness ==
    /\ last.op = "Create"
    /\ last.err = nil
    /\ last.labels = <<"c", "a", "b">>
    /\ last.namespace = "a-b-c"
    /\ Exists(Shared, "service:configuration:namespace:a-b-c:piece:list")

\* The outcome of Delete(labels) issued from the shared state sh.
DeleteNext(sh, labels) ==
    Run([sh |-> sh, c |-> NewFrame("Delete", Caller, labels, "absent", "", <<>>, 0)])

\* A namespace with no persistent and no cached state.
NoState(namespace) ==
    /\ ~Exists(Shared, rulerListKey(namespace))
    /\ ~Exists(Shared, pieceListKey(namespace))
    /\ ~Exists(Shared, rulerUsedKey(namespace))
    /\ ~Exists(Shared, pieceUsedKey(namespace))
    /\ \A k \in DOMAIN pieces : ~HasPrefix(k, pieceListKey(namespace))

Invoked(call) ==
    {call.events[i].value : i \in {j \in DOMAIN call.events : call.events[j].kind = "ruler"}}

\* A trial Execute that has invoked ruler r, from a state in which the rulers
\* of its namespace are S: r has the greatest score of S, or is the random
\* ruler if S is empty.
InvokesTopRuler(key, r) ==
    LET S == Members(Shared, key)
    IN  IF S = {} THEN r = randomRuler
        ELSE /\ r \in S
             /\ \A m \in S : Score(Shared, key, r) >= Score(Shared, key, m)

ScoresOf(sc, key) == [m \in MembersOf(sc, key) |-> ScoreOf(sc, key, m)]

\* C16: a Success that returns an error leaves every ruler score and every
\* piece score of its namespace unchanged; in particular no ruler score is
\* incremented when the used-ruler record exists and the used-piece record
\* does not.
C16_FailedSuccessChangesNoScore ==
    [][(last'.op = "Success" /\ last'.err # nil)
          => /\ ScoresOf(scored', rulerListKey(last'.namespace))
                    = ScoresOf(scored, rulerListKey(last'.namespace))
             /\ ScoresOf(scored', pieceListKey(last'.namespace))
                    = ScoresOf(scored, pieceListKey(last'.namespace))]_vars

\* C18: every member of the piece scored set of a namespace is a pieceID that
\* Create has registered for the namespace since its most recent Delete or
\* Failure; Execute, Success, Failure and Delete add no member.
C18_PiecesComeFromCreate ==
    \A n \in Namespaces :
        \A m \in Members(Shared, pieceListKey(n)) : <<n, m>> \in DOMAIN registered

\* C19: once Boot has run, every ruler scored set that exists holds every
\* registered ruler, the random one and the highest one.
C19_RulerSetHoldsEveryRuler ==
    bootOnce = "done"
        => \A n \in Namespaces :
              Exists(Shared, rulerListKey(n))
                  => {randomRuler, highestRuler} \subseteq Members(Shared, rulerListKey(n))

\* The state of namespace n in the shared state sh: its two scored sets, its
\* two used records and the cache entries Create writes for it.
StateOf(sh, n) ==
    [rulerList |-> ScoresOf(sh.scored, rulerListKey(n)),
     pieceList |-> ScoresOf(sh.scored, pieceListKey(n)),
     rulerUsed |-> Get(sh, rulerUsedKey(n)),
     pieceUsed |-> Get(sh, pieceUsedKey(n)),
     cache |-> [p \in {q \in SeparatorPieceIDs :
                          appendToNamespace(pieceListKey(n), q) \in DOMAIN sh.pieces}
                   |-> sh.pieces[appendToNamespace(pieceListKey(n), p)]]]

\* C20: Delete and Failure leave unchanged every cache entry, scored set and
\* used record of every namespace other than the one derived from their
\* labels, also when labels and pieceIDs contain the separators "-" and ":".
C20_DeleteLeavesOtherNamespaces ==
    [][last'.op \in {"Delete", "Failure"}
          => \A n \in SeparatorNamespaces \ {last'.namespace} :
                StateOf(Shared', n) = StateOf(Shared, n)]_vars

\* The namespace of the concurrent calls.
ConcurrentNamespace == labelsToNamespace(ConcurrentLabels)

\* C12: under any interleaving of concurrent Create, Execute and Success calls
\* on one namespace, with no Delete and no Failure, no score of a piece or of a
\* ruler of the namespace ever decreases: no Create sets back to 0 a score
\* that Success has incremented.
C12_ScoresNeverDecrease ==
    [][~history'.purged
          => \A key \in {rulerListKey(ConcurrentNamespace), pieceListKey(ConcurrentNamespace)} :
                \A m \in MembersOf(scored, key) :
                    /\ m \in MembersOf(scored', key)
                    /\ ScoreOf(scored', key, m) >= ScoreOf(scored, key, m)]_vars

\* The steps that read or write the piece cache.
CacheSteps == {"c_cache", "d_cache", "e_cache"}

\* The steps that issue a storage call.
StorageStep(c) ==
    \/ c.op = "Create" /\ c.pc \in {"c_exists", "c_seed", "c_pexists", "c_pset"}
    \/ c.op \in {"Delete", "Failure"} /\ c.pc \in {"start", "d_pieces"}
    \/ c.op = "Execute" /\ c.pc \in {"e_highest", "e_setruler", "e_get", "e_ruler", "e_setpiece"}
    \/ c.op = "Success" /\ c.pc \in {"start", "s_incruler", "s_getpiece", "s_incpiece"}

\* C13: under any interleaving of concurrent calls, a call that is about to
\* read or write the piece cache holds the mutex, so that at most one call
\* accesses the cache at a time, and a call that holds the mutex is not about
\* to issue a storage operation.
C13_CacheUnderMutexStorageOutside ==
    /\ \A t \in Threads : threads[t].c.pc \in CacheSteps => mutex = t
    /\ Cardinality({t \in Threads : threads[t].c.pc \in CacheSteps}) <= 1
    /\ \A t \in Threads : mutex = t => ~StorageStep(threads[t].c)

\* C13 witness: a Create is about to write the cache, holding the mutex,
\* while a Delete waits for the mutex.
C13_Witness ==
    \E t, u \in Threads :
        /\ threads[t].c.op = "Create"
        /\ threads[t].c.pc = "c_cache"
        /\ mutex = t
        /\ threads[u].c.op = "Delete"
        /\ threads[u].c.pc = "d_lock"
        /\ Blocked(Shared, threads[u].c)

\* The steps of Boot that write the ruler registry.
RegistrySteps == {"b_random", "b_highest"}

\* C15: under any number of sequential or concurrent Boot calls the ruler
\* registry is written by one Boot call only, the first to run; when that call
\* is through the registry holds exactly the random and the highest ruler; and
\* every other Boot call and every Create, Execute, Success and Delete call
\* leaves the registry unchanged.
C15_RegistryWrittenOnce ==
    [][/\ \A t \in Threads :
             (/\ threads[t].c.op = "Boot"
              /\ threads[t].c.pc \in RegistrySteps
              /\ threads'[t] # threads[t])
                 => /\ bootOnce = "running"
                    /\ \A u \in Threads \ {t} :
                          ~(threads[u].c.op = "Boot" /\ threads[u].c.pc \notin {"idle", "start"})
       /\ rulers' # rulers
             => \E t \in Threads :
                   /\ threads[t].c.op = "Boot"
                   /\ threads[t].c.pc \in RegistrySteps
                   /\ threads'[t] # threads[t]
       /\ bootOnce = "running" => bootOnce' \in {"running", "done"}
       /\ bootOnce = "done" => bootOnce' = "done" /\ rulers' = rulers
       /\ bootOnce' = "done" => rulers' = {randomRuler, highestRuler}]_vars

\* C15 witness: the first Boot call has registered the random ruler and is
\* about to register the highest one, while a second Boot call waits.
C15_Witness ==
    \E t, u \in Threads :
        /\ threads[t].c.op = "Boot"
        /\ threads[t].c.pc = "b_highest"
        /\ rulers = {randomRuler}
        /\ threads[u].c.op = "Boot"
        /\ threads[u].c.pc = "start"
        /\ Blocked(Shared, threads[u].c)

\* C17: after any interleaving of trial Execute calls on one namespace,
\* whenever no Execute is in progress and both used records exist, the
\* used-ruler record and the used-piece record were written by the same
\* Execute call.
C17_UsedRecordsFromOneExecute ==
    (/\ ~history.purged
     /\ \A t \in Threads : threads[t].c.op # "Execute"
     /\ Exists(Shared, rulerUsedKey(ConcurrentNamespace))
     /\ Exists(Shared, pieceUsedKey(ConcurrentNamespace)))
        => history.writers[rulerUsedKey(ConcurrentNamespace)]
               = history.writers[pieceUsedKey(ConcurrentNamespace)]

====
